---------------------------- MODULE Spec2Model ----------------------------
(***************************************************************************)
(* Model of the Matrix chat bot (src/src/main.py) and of the one-shot DM   *)
(* utility (src/src/mcbot.py).                                             *)
(*                                                                         *)
(* The bot keeps one process-wide map CHAT_HISTORY from room id to a list  *)
(* of role-tagged messages.  message_callback dispatches every inbound     *)
(* text event to one of four coroutines.  A coroutine runs without         *)
(* interruption up to its next await; every await of a Matrix or Ollama    *)
(* call is a point where other handlers may run, because the code holds no *)
(* lock and keeps no per-room queue.  Each action below is therefore one   *)
(* await-to-await segment of a handler.                                    *)
(*                                                                         *)
(* Texts are sequences of one-character strings, so that str.startswith is *)
(* computed and not assumed.                                               *)
(***************************************************************************)
EXTENDS Naturals, Sequences, FiniteSets

\* ------------------------------------------------------------- bounds
\* Number of inbound text events delivered to message_callback in one run.
MaxEvents == 3
\* Number of Matrix calls (room_send, room_redact) that fail in one run.
MaxFaults == 1
\* Number of relays (handle_message calls) in one run.
MaxRelays == 2

\* ------------------------------------------------------------- inputs
Rooms == {"r1", "r2"}

\* event.sender: the bot's own user id, or somebody else.
user_id == "@bot"
Senders == {user_id, "@alice"}

T_start  == <<"/", "s", "t", "a", "r", "t">>
T_startx == <<"/", "s", "t", "a", "r", "t", "x">>
T_START  == <<"/", "S", "T", "A", "R", "T">>
T_help   == <<"/", "h", "e", "l", "p">>
T_reset  == <<"/", "r", "e", "s", "e", "t">>
T_hi     == <<"h", "i">>

Texts == {T_start, T_startx, T_START, T_help, T_reset, T_hi}

\* What an awaited Matrix call can do: return a response, return an error
\* response (an object without event_id), or raise (transport error).
Outcomes == {"ok", "err", "raise"}

Events == 1..MaxEvents

\* The (sender, text) pairs of the events delivered: every text from another
\* user, and from the bot itself what it sends and a command.
Inbound ==
    ({"@alice"} \X Texts) \cup ({user_id} \X {T_reset, T_hi})

\* ------------------------------------------------------------- state
VARIABLES
    program,        \* which script runs: "main" (main.py) or "mcbot" (mcbot.py)
    conf_file,      \* bot.conf: "missing" or "present"
    conf_keys,      \* the keys the JSON object in bot.conf gives
    password,       \* the configured matrix_password
    CONFIG,         \* what load_config returned: key -> where its value is from
    main_pc,        \* where main() is
    client,         \* the AsyncClient: "none", "open" or "closed"
    logins,         \* the number of client.login calls made
    login_response, \* how client.login ended ("none": not called or pending)
    registered,     \* message_callback was given to add_event_callback
    diag,           \* a diagnostic (a printed message or a traceback) was written
    exit_status,    \* "running", "zero" or "nonzero"
    dm_state,       \* mcbot_state.json: the dm_room_id it holds, or "none"
    saved_room,     \* mcbot.py main: the local saved_room ("unset" before line 85)
    sent,           \* mcbot.py main: the local sent
    dm_log,         \* mcbot.py main: the calls made after login, in order
    CHAT_HISTORY,   \* room id -> list of messages; the domain is the set of keys
    calls,          \* per delivered event: its room and the handler called for it
    event,          \* the event message_callback received last
    pc,             \* per relay: the await at which handle_message is suspended
    user_text,      \* per relay: handle_message's user_text argument
    thinking,       \* per relay: thinking_response ("ok": has event_id)
    prompt,         \* per relay: the messages argument given to client.chat
    infer,          \* per relay: how client.chat ended
    exc,            \* per relay: the exception that left handle_message
    faults,         \* the number of Matrix calls that have failed
    outbox          \* per room: what the homeserver received, in order

dmVars == <<dm_state, saved_room, sent, dm_log>>
procVars == <<program, conf_file, conf_keys, password, CONFIG, main_pc, client,
              logins, login_response, registered, diag, exit_status, dmVars>>
botVars == <<CHAT_HISTORY, calls, event, pc, user_text, thinking, prompt, infer,
             exc, faults, outbox>>
vars == <<procVars, botVars>>

\* ------------------------------------------------------------- helpers
\* str.startswith
startswith(s, p) ==
    /\ Len(p) <= Len(s)
    /\ SubSeq(s, 1, Len(p)) = p

UserMsg(text) == [role |-> "user", content |-> text]

\* The content the inference server answers to the turn whose user text is
\* `text`: opaque to the bot, tagged here so that a reply names its turn.
response_text(text) == <<"re:">> \o text

AssistantMsg(text) == [role |-> "assistant", content |-> response_text(text)]

\* A message body sent with room_send.
Body(kind, text) == [kind |-> kind, text |-> text]

\* room_send / room_redact as seen by the homeserver; `by` is the index of the
\* event whose handler made the call (it stands for the event id of the sent
\* message, which room_redact names).
Sent(by, kind, text) == [op |-> "send", by |-> by, body |-> Body(kind, text)]
Redacted(by) == [op |-> "redact", by |-> by, body |-> Body("thinking", <<>>)]

\* The outbox after a room_send of `m` to `r` that ends with outcome `o`.
room_send(box, r, m, o) ==
    IF o = "ok" THEN [box EXCEPT ![r] = Append(@, m)] ELSE box

\* The outbox after a room_redact.
room_redact(box, r, by, o) ==
    IF o = "ok" THEN [box EXCEPT ![r] = Append(@, Redacted(by))] ELSE box

\* A dispatcher that compares the whole text with the command word.
Dispatch_exact(sender, text) ==
    IF sender = user_id THEN "none"
    ELSE IF text = T_start THEN "start"
    ELSE IF text = T_help THEN "help"
    ELSE IF text = T_reset THEN "reset"
    ELSE "relay"

\* A dispatcher that does not look at the sender.
Dispatch_any_sender(sender, text) ==
    IF startswith(text, T_start) THEN "start"
    ELSE IF startswith(text, T_help) THEN "help"
    ELSE IF startswith(text, T_reset) THEN "reset"
    ELSE "relay"

\* main.py 173-187: the handler message_callback calls.
Dispatch(sender, text) ==
    IF sender = user_id THEN "none"
    ELSE IF startswith(text, T_start) THEN "start"
    ELSE IF startswith(text, T_help) THEN "help"
    ELSE IF startswith(text, T_reset) THEN "reset"
    ELSE "relay"

\* A reset that empties every room's history.
reset_history_all(h, r) ==
    IF r \in DOMAIN h THEN [x \in DOMAIN h |-> << >>] ELSE h

\* A reset that gives a room without an entry an empty one.
reset_history_creates(h, r) ==
    [x \in DOMAIN h \cup {r} |-> IF x = r THEN << >> ELSE h[x]]

\* main.py 96-97
reset_history(h, r) ==
    IF r \in DOMAIN h THEN [h EXCEPT ![r] = <<>>] ELSE h

\* An append that takes the leading slash off the text.
append_user_stripped(h, r, text) ==
    LET e == IF r \in DOMAIN h THEN h[r] ELSE <<>>
        c == IF text # << >> /\ text[1] = "/" THEN Tail(text) ELSE text
    IN  [x \in DOMAIN h \cup {r} |-> IF x = r THEN Append(e, UserMsg(c)) ELSE h[x]]

\* main.py 122-126
append_user(h, r, text) ==
    LET e == IF r \in DOMAIN h THEN h[r] ELSE <<>>
    IN  [x \in DOMAIN h \cup {r} |-> IF x = r THEN Append(e, UserMsg(text)) ELSE h[x]]

\* main.py 134
append_assistant(h, r, text) ==
    [h EXCEPT ![r] = Append(@, AssistantMsg(text))]

Room(t) == calls[t].room

\* The number of relays started so far.
Relays == Cardinality({i \in 1..Len(calls) : calls[i].handler = "relay"})

\* main.py 202, mcbot.py 61: not password or password == "your_matrix_password_here"
password_missing(p) == p \in {"empty", "template"}

\* main.py 9-15: the keys of DEFAULT_CONFIG.
DefaultKeys ==
    {"matrix_password", "matrix_user_id", "matrix_homeserver", "ollama_url", "model"}

\* The keys a bot.conf may give: the keys of DEFAULT_CONFIG, target_user
\* (mcbot.py 81) and one key neither script reads.
FileKeys == DefaultKeys \cup {"target_user", "colour"}

\* mcbot.py 53-55: the keys main indexes cfg with before the client exists.
RequiredKeys == {"matrix_homeserver", "matrix_user_id", "matrix_password"}

\* main.py 18-54: load_config, given whether bot.conf exists and the keys its
\* JSON object gives.  A value is tagged with where it is from.  With the file
\* present line 27 evaluates json.load, and json is not imported (main.py
\* 1-7): NameError, raised again by the clause at line 30, leaves load_config.
main_load_config(file, keys) ==
    IF file = "present"
    THEN [raised |-> TRUE, cfg |-> << >>]
    ELSE [raised |-> FALSE, cfg |-> [k \in DefaultKeys |-> "default"]]

\* mcbot.py 38-47: load_config returns the file's object as it is, or {}.
mcbot_load_config(file, keys) ==
    [raised |-> FALSE,
     cfg |-> IF file = "present" THEN [k \in keys |-> "file"] ELSE << >>]

\* ------------------------------------------------------------- Init
\* The bot's memory when the module has been imported (main.py 59-63).
Memory ==
    /\ CHAT_HISTORY = << >>
    /\ calls = << >>
    /\ event = [room |-> "", sender |-> "", text |-> << >>]
    /\ pc = [t \in Events |-> "idle"]
    /\ user_text = [t \in Events |-> << >>]
    /\ thinking = [t \in Events |-> "none"]
    /\ prompt = [t \in Events |-> << >>]
    /\ infer = [t \in Events |-> "none"]
    /\ exc = [t \in Events |-> "none"]

Init ==
    /\ program \in {"main", "mcbot"}
    /\ conf_file \in {"missing", "present"}
    /\ password \in {"absent", "empty", "template", "set"}
    /\ conf_keys \in SUBSET FileKeys
    /\ IF conf_file = "present"
       THEN ("matrix_password" \in conf_keys) <=> (password # "absent")
       ELSE conf_keys = {}
    /\ CONFIG = << >>
    /\ dm_state \in (IF program = "mcbot" THEN {"none", "saved"} ELSE {"none"})
    /\ saved_room = "unset"
    /\ sent = FALSE
    /\ dm_log = << >>
    /\ main_pc = "load"
    /\ client = "none"
    /\ logins = 0
    /\ login_response = "none"
    /\ registered = FALSE
    /\ diag = FALSE
    /\ exit_status = "running"
    /\ Memory
    /\ faults = 0
    /\ outbox = [r \in Rooms |-> << >>]

\* ------------------------------------------------------------- main.py: main
\* The process's memory is gone.
forget ==
    /\ CHAT_HISTORY' = << >>
    /\ calls' = << >>
    /\ event' = [room |-> "", sender |-> "", text |-> << >>]
    /\ pc' = [t \in Events |-> "idle"]
    /\ user_text' = [t \in Events |-> << >>]
    /\ thinking' = [t \in Events |-> "none"]
    /\ prompt' = [t \in Events |-> << >>]
    /\ infer' = [t \in Events |-> "none"]
    /\ exc' = [t \in Events |-> "none"]

\* A way out of main that leaves the client open.
close_skipped == UNCHANGED client

\* main.py 226-227, mcbot.py 163-164: finally: await client.close()
close == client' = "closed"

\* The process ends: status, and whether something was printed.
exits(status, printed) ==
    /\ main_pc' = "exited"
    /\ exit_status' = status
    /\ diag' = printed

\* main.py 18-57, run at import.  main.py never imports json: with a bot.conf
\* present json.load raises NameError, and so does evaluating the clause
\* `except json.JSONDecodeError`; the import ends with a traceback.  Without
\* the file the defaults stand, and matrix_password is MATRIX_PASSWORD or "".
main_load ==
    /\ program = "main"
    /\ main_pc = "load"
    /\ LET c == main_load_config(conf_file, conf_keys)
       IN  IF c.raised
           THEN /\ exits("nonzero", TRUE)
                /\ UNCHANGED <<password, CONFIG>>
           ELSE /\ main_pc' = "check"
                /\ CONFIG' = c.cfg
                /\ password' = IF password = "absent" THEN "empty" ELSE password
                /\ UNCHANGED <<exit_status, diag>>
    /\ UNCHANGED <<program, conf_file, conf_keys, login_response, dmVars, client, logins,
                   registered, botVars>>

\* main.py 198-211: the credential check, the client, the login call.
main_check ==
    /\ program = "main"
    /\ main_pc = "check"
    /\ IF password_missing(password)
       THEN /\ exits("nonzero", TRUE)
            /\ UNCHANGED <<client, logins>>
       ELSE /\ client' = "open"
            /\ logins' = logins + 1
            /\ main_pc' = "login"
            /\ UNCHANGED <<exit_status, diag>>
    /\ UNCHANGED <<program, conf_file, conf_keys, login_response, CONFIG, dmVars, password,
                   registered, botVars>>

\* What client.login can do: a LoginResponse, a response with an empty
\* user_id, a LoginError (which has no user_id), or an exception.
LoginOutcomes == {"ok", "empty", "err", "raise"}

\* main.py 211-227: login returns; on success the callback is registered and
\* sync_forever starts.  exit(1) raises SystemExit, which `except Exception`
\* lets through; everything else is logged and main returns.
main_login(o) ==
    /\ program = "main"
    /\ main_pc = "login"
    /\ login_response' = o
    /\ IF o = "ok"
       THEN /\ registered' = TRUE
            /\ main_pc' = "sync"
            /\ UNCHANGED <<client, exit_status, diag>>
       ELSE /\ close
            /\ exits(IF o = "empty" THEN "nonzero" ELSE "zero", TRUE)
            /\ UNCHANGED registered
    /\ UNCHANGED <<program, conf_file, conf_keys, CONFIG, dmVars, password, logins,
                   botVars>>

\* main.py 223-227: sync_forever raises; the error is logged, the client
\* closed, and main returns.  The history is never persisted: the process
\* ends and its memory, the pending handlers included, is gone.
main_sync_fail ==
    /\ program = "main"
    /\ main_pc = "sync"
    /\ close
    /\ exits("zero", TRUE)
    /\ forget
    /\ UNCHANGED <<program, conf_file, conf_keys, login_response, CONFIG, dmVars, password, logins,
                   registered, faults, outbox>>

\* ------------------------------------------------------------- mcbot.py: main
\* mcbot.py 52-57: cfg[...] raises KeyError for a key the file does not give
\* (every key, when there is no file); then the client is constructed.
mcbot_load ==
    /\ program = "mcbot"
    /\ main_pc = "load"
    /\ CONFIG' = mcbot_load_config(conf_file, conf_keys).cfg
    /\ IF ~ (RequiredKeys \subseteq DOMAIN CONFIG')
       THEN /\ exits("nonzero", TRUE)
            /\ UNCHANGED client
       ELSE /\ client' = "open"
            /\ main_pc' = "check"
            /\ UNCHANGED <<exit_status, diag>>
    /\ UNCHANGED <<program, conf_file, conf_keys, login_response, dmVars, password, logins,
                   registered, botVars>>

\* mcbot.py 59-67, 163-164: the credential check; on a missing password the
\* message is printed, the client closed and main returns.
mcbot_check ==
    /\ program = "mcbot"
    /\ main_pc = "check"
    /\ IF password_missing(password)
       THEN /\ close
            /\ exits("zero", TRUE)
            /\ UNCHANGED logins
       ELSE /\ logins' = logins + 1
            /\ main_pc' = "login"
            /\ UNCHANGED <<client, exit_status, diag>>
    /\ UNCHANGED <<program, conf_file, conf_keys, login_response, CONFIG, dmVars, password,
                   registered, botVars>>

\* mcbot.py 67-75, 158-164: login returns.
mcbot_login(o) ==
    /\ program = "mcbot"
    /\ main_pc = "login"
    /\ o # "empty"
    /\ login_response' = o
    /\ IF o = "ok"
       THEN /\ main_pc' = "dm"
            /\ UNCHANGED <<client, exit_status, diag>>
       ELSE /\ close
            /\ exits("zero", TRUE)
    /\ UNCHANGED <<program, conf_file, conf_keys, CONFIG, dmVars, password, logins,
                   registered, botVars>>

\* ------------------------------------------------------------- mcbot.py: the DM
\* A call of the DM flow as it returned: room_send ("send"), room_create
\* ("create") or update_state ("save"), the room it names, and how it ended.
DmCall(call, room, o) == [call |-> call, room |-> room, o |-> o]

\* How update_state can end: the file is written, or save_state raises.
Writes == {"ok", "fail"}

\* A utility that asks for a new room whatever became of the first send.
need_room_always(s) == TRUE

\* mcbot.py 105: if not sent
need_room(s) == ~ s

\* mcbot.py 81-90, 105-107: target_user is read (KeyError: the outer handler
\* prints, the client is closed); the state is loaded; main awaits the send
\* to the saved room, or room_create when the state holds no room id.
dm_start ==
    /\ program = "mcbot"
    /\ main_pc = "dm"
    /\ IF "target_user" \notin DOMAIN CONFIG
       THEN /\ close
            /\ exits("zero", TRUE)
            /\ UNCHANGED <<saved_room, sent>>
       ELSE /\ saved_room' = dm_state
            /\ sent' = FALSE
            /\ main_pc' = IF dm_state # "none" THEN "send_saved" ELSE "create"
            /\ UNCHANGED <<client, exit_status, diag>>
    /\ UNCHANGED <<program, conf_file, conf_keys, login_response, CONFIG, password, logins,
                   registered, dm_state, dm_log, botVars>>

\* mcbot.py 90-107, 163-164: the send to the saved room returns or raises.
dm_send_saved(o) ==
    /\ program = "mcbot"
    /\ main_pc = "send_saved"
    /\ dm_log' = Append(dm_log, DmCall("send", saved_room, o))
    /\ sent' = (o = "ok")
    /\ IF need_room(sent')
       THEN /\ main_pc' = "create"
            /\ UNCHANGED <<client, exit_status, diag>>
       ELSE /\ close
            /\ exits("zero", TRUE)
    /\ UNCHANGED <<program, conf_file, conf_keys, login_response, CONFIG, password, logins,
                   registered, dm_state, saved_room, botVars>>

\* mcbot.py 107-123, 31-36, 155-164: room_create returns or raises.  Without
\* a room_id the failure is printed and main ends.  With one, update_state
\* writes it to the state file (w: a failed write is printed and passed
\* over), and main awaits the send to the new room.
dm_create(o, w) ==
    /\ program = "mcbot"
    /\ main_pc = "create"
    /\ IF o = "ok"
       THEN /\ dm_log' = dm_log \o <<DmCall("create", "new", o),
                                     DmCall("save", "new", w)>>
            /\ dm_state' = IF w = "ok" THEN "new" ELSE dm_state
            /\ main_pc' = "send_new"
            /\ UNCHANGED <<client, exit_status, diag>>
       ELSE /\ w = "ok"
            /\ dm_log' = Append(dm_log, DmCall("create", "new", o))
            /\ close
            /\ exits("zero", TRUE)
            /\ UNCHANGED dm_state
    /\ UNCHANGED <<program, conf_file, conf_keys, login_response, CONFIG, password, logins,
                   registered, saved_room, sent, botVars>>

\* mcbot.py 123-133, 135-164: the send to the new room returns or raises;
\* the result is printed, the client closed, and main returns.
dm_send_new(o) ==
    /\ program = "mcbot"
    /\ main_pc = "send_new"
    /\ dm_log' = Append(dm_log, DmCall("send", "new", o))
    /\ close
    /\ exits("zero", TRUE)
    /\ UNCHANGED <<program, conf_file, conf_keys, login_response, CONFIG, password, logins,
                   registered, dm_state, saved_room, sent, botVars>>

\* ------------------------------------------------------------- main.py: handlers
\* The sync loop runs: events are delivered and handlers resume.
Syncing == program = "main" /\ main_pc = "sync"

\* A runtime that holds back a room's events while a handler of the room is
\* suspended.
Deliverable_locked(r) ==
    /\ Len(calls) < MaxEvents
    /\ \A t \in 1..Len(calls) : calls[t].room = r => pc[t] \in {"idle", "done"}

\* main.py 220-223: sync_forever hands an event to the registered callback;
\* whether handlers of the room are still suspended is not looked at.
Deliverable(r) == Len(calls) < MaxEvents

\* A Matrix call ends with outcome o.
matrix_call(o) ==
    IF o = "ok" THEN UNCHANGED faults
    ELSE /\ faults < MaxFaults
         /\ faults' = faults + 1

\* message_callback (main.py 170-187) up to the first await of the handler.
message_callback(r, s, text, o) ==
    LET t == Len(calls) + 1
        h == Dispatch(s, text)
    IN  /\ Syncing
        /\ Deliverable(r)
        /\ matrix_call(o)
        /\ event' = [room |-> r, sender |-> s, text |-> text]
        /\ calls' = Append(calls, [room |-> r, handler |-> h])
        /\ CASE h = "none" ->
                  /\ o = "ok"
                  /\ UNCHANGED <<CHAT_HISTORY, pc, user_text, outbox>>
             [] h = "start" ->
                  /\ outbox' = room_send(outbox, r, Sent(t, "greeting", <<>>), o)
                  /\ UNCHANGED <<CHAT_HISTORY, pc, user_text>>
             [] h = "help" ->
                  /\ outbox' = room_send(outbox, r, Sent(t, "usage", <<>>), o)
                  /\ UNCHANGED <<CHAT_HISTORY, pc, user_text>>
             [] h = "reset" ->
                  /\ CHAT_HISTORY' = reset_history(CHAT_HISTORY, r)
                  /\ outbox' = room_send(outbox, r, Sent(t, "reset_ack", <<>>), o)
                  /\ UNCHANGED <<pc, user_text>>
             [] h = "relay" ->
                  /\ o = "ok"
                  /\ Relays < MaxRelays
                  /\ pc' = [pc EXCEPT ![t] = "thinking"]
                  /\ user_text' = [user_text EXCEPT ![t] = text]
                  /\ UNCHANGED <<CHAT_HISTORY, outbox>>
        /\ UNCHANGED <<thinking, prompt, infer, exc, procVars>>

\* A handler that calls client.chat with the list as it is before the user
\* message is appended.
relay_append_late(t, o) ==
    /\ Syncing
    /\ pc[t] = "thinking"
    /\ matrix_call(o)
    /\ IF o = "raise"
       THEN /\ pc' = [pc EXCEPT ![t] = "done"]
            /\ exc' = [exc EXCEPT ![t] = "transport"]
            /\ UNCHANGED <<CHAT_HISTORY, thinking, prompt, outbox>>
       ELSE /\ thinking' = [thinking EXCEPT ![t] = o]
            /\ outbox' = room_send(outbox, Room(t), Sent(t, "thinking", <<>>), o)
            /\ CHAT_HISTORY' = append_user(CHAT_HISTORY, Room(t), user_text[t])
            /\ prompt' = [prompt EXCEPT ![t] =
                              IF Room(t) \in DOMAIN CHAT_HISTORY
                              THEN CHAT_HISTORY[Room(t)] ELSE << >>]
            /\ pc' = [pc EXCEPT ![t] = "chat"]
            /\ UNCHANGED exc
    /\ UNCHANGED <<calls, event, user_text, infer, procVars>>

\* handle_message, main.py 112-130: the placeholder send returns, the user
\* message is appended and client.chat is called with the room's list.
relay_append(t, o) ==
    /\ Syncing
    /\ pc[t] = "thinking"
    /\ matrix_call(o)
    /\ IF o = "raise"
       THEN /\ pc' = [pc EXCEPT ![t] = "done"]
            /\ exc' = [exc EXCEPT ![t] = "transport"]
            /\ UNCHANGED <<CHAT_HISTORY, thinking, prompt, outbox>>
       ELSE /\ thinking' = [thinking EXCEPT ![t] = o]
            /\ outbox' = room_send(outbox, Room(t), Sent(t, "thinking", <<>>), o)
            /\ CHAT_HISTORY' = append_user(CHAT_HISTORY, Room(t), user_text[t])
            /\ prompt' = [prompt EXCEPT ![t] = CHAT_HISTORY'[Room(t)]]
            /\ pc' = [pc EXCEPT ![t] = "chat"]
            /\ UNCHANGED exc
    /\ UNCHANGED <<calls, event, user_text, infer, procVars>>

\* Where handle_message goes when it is about to call
\* room_redact(event_id=thinking_response.event_id): an error response has no
\* event_id, and the AttributeError raised in the try block is raised again
\* by the same expression in the except block (main.py 139, 158).
redact_or_raise(t, next) ==
    IF thinking[t] = "ok"
    THEN /\ pc' = [pc EXCEPT ![t] = next]
         /\ UNCHANGED exc
    ELSE /\ pc' = [pc EXCEPT ![t] = "done"]
         /\ exc' = [exc EXCEPT ![t] = "attribute"]

\* main.py 130-137: client.chat returns; the assistant message is appended.
infer_ok(t) ==
    /\ Syncing
    /\ pc[t] = "chat"
    /\ infer' = [infer EXCEPT ![t] = "ok"]
    /\ CHAT_HISTORY' = append_assistant(CHAT_HISTORY, Room(t), user_text[t])
    /\ redact_or_raise(t, "redact")
    /\ UNCHANGED <<calls, event, user_text, thinking, prompt, faults, outbox, procVars>>

\* A handler that records the failed turn as an assistant message.
infer_fail_records(t) ==
    /\ Syncing
    /\ pc[t] = "chat"
    /\ infer' = [infer EXCEPT ![t] = "failed"]
    /\ CHAT_HISTORY' = [CHAT_HISTORY EXCEPT ![Room(t)] =
                            Append(@, [role |-> "assistant", content |-> << >>])]
    /\ redact_or_raise(t, "redact_exc")
    /\ UNCHANGED <<calls, event, user_text, thinking, prompt, faults, outbox, procVars>>

\* A handler that takes the last message off the history when the call fails.
infer_fail_rollback(t) ==
    /\ Syncing
    /\ pc[t] = "chat"
    /\ infer' = [infer EXCEPT ![t] = "failed"]
    /\ CHAT_HISTORY' = [CHAT_HISTORY EXCEPT ![Room(t)] =
                            IF @ = << >> THEN @ ELSE SubSeq(@, 1, Len(@) - 1)]
    /\ redact_or_raise(t, "redact_exc")
    /\ UNCHANGED <<calls, event, user_text, thinking, prompt, faults, outbox, procVars>>

\* main.py 130, 151-156: client.chat raises.
infer_fail(t) ==
    /\ Syncing
    /\ pc[t] = "chat"
    /\ infer' = [infer EXCEPT ![t] = "failed"]
    /\ redact_or_raise(t, "redact_exc")
    /\ UNCHANGED <<CHAT_HISTORY, calls, event, user_text, thinking, prompt, faults,
                   outbox, procVars>>

\* main.py 137-143: the redaction in the try block ends.
redact(t, o) ==
    /\ Syncing
    /\ pc[t] = "redact"
    /\ matrix_call(o)
    /\ outbox' = room_redact(outbox, Room(t), t, o)
    /\ pc' = [pc EXCEPT ![t] = IF o = "raise" THEN "redact_exc" ELSE "send_reply"]
    /\ UNCHANGED <<CHAT_HISTORY, calls, event, user_text, thinking, prompt, infer,
                   exc, procVars>>

\* main.py 143-150: the send of the reply ends.
send_reply(t, o) ==
    /\ Syncing
    /\ pc[t] = "send_reply"
    /\ matrix_call(o)
    /\ outbox' = room_send(outbox, Room(t), Sent(t, "reply", response_text(user_text[t])), o)
    /\ pc' = [pc EXCEPT ![t] = IF o = "raise" THEN "redact_exc" ELSE "done"]
    /\ UNCHANGED <<CHAT_HISTORY, calls, event, user_text, thinking, prompt, infer,
                   exc, procVars>>

\* main.py 156-161: the redaction in the except block ends.
redact_exc(t, o) ==
    /\ Syncing
    /\ pc[t] = "redact_exc"
    /\ matrix_call(o)
    /\ outbox' = room_redact(outbox, Room(t), t, o)
    /\ pc' = [pc EXCEPT ![t] = IF o = "raise" THEN "done" ELSE "send_apology"]
    /\ exc' = [exc EXCEPT ![t] = IF o = "raise" THEN "transport" ELSE @]
    /\ UNCHANGED <<CHAT_HISTORY, calls, event, user_text, thinking, prompt, infer,
                   procVars>>

\* main.py 161-168: the send of the apology ends.
send_apology(t, o) ==
    /\ Syncing
    /\ pc[t] = "send_apology"
    /\ matrix_call(o)
    /\ outbox' = room_send(outbox, Room(t), Sent(t, "apology", <<>>), o)
    /\ pc' = [pc EXCEPT ![t] = "done"]
    /\ exc' = [exc EXCEPT ![t] = IF o = "raise" THEN "transport" ELSE @]
    /\ UNCHANGED <<CHAT_HISTORY, calls, event, user_text, thinking, prompt, infer,
                   procVars>>

Next ==
    \/ main_load
    \/ main_check
    \/ \E o \in LoginOutcomes : main_login(o)
    \/ main_sync_fail
    \/ mcbot_load
    \/ mcbot_check
    \/ \E o \in LoginOutcomes : mcbot_login(o)
    \/ dm_start
    \/ \E o \in Outcomes : dm_send_saved(o)
    \/ \E o \in Outcomes, w \in Writes : dm_create(o, w)
    \/ \E o \in Outcomes : dm_send_new(o)
    \/ \E r \in Rooms, e \in Inbound, o \in Outcomes :
           message_callback(r, e[1], e[2], o)
    \/ \E t \in Events, o \in Outcomes : relay_append(t, o)
    \/ \E t \in Events : infer_ok(t)
    \/ \E t \in Events : infer_fail(t)
    \/ \E t \in Events, o \in Outcomes : redact(t, o)
    \/ \E t \in Events, o \in Outcomes : send_reply(t, o)
    \/ \E t \in Events, o \in Outcomes : redact_exc(t, o)
    \/ \E t \in Events, o \in Outcomes : send_apology(t, o)

Spec == Init /\ [][Next]_vars

\* ------------------------------------------------------------- vocabulary
Last(q) == q[Len(q)]

\* A room's history, empty when the map has no entry for it.
Hist(r) == IF r \in DOMAIN CHAT_HISTORY THEN CHAT_HISTORY[r] ELSE << >>

\* The relays (handle_message calls) made for room r, by event index.
RelaysOf(r) == {t \in 1..Len(calls) : calls[t].room = r /\ calls[t].handler = "relay"}

\* No /reset has been handled for room r.
NoReset(r) == \A i \in 1..Len(calls) : ~(calls[i].room = r /\ calls[i].handler = "reset")

\* The history N successful turns in room r give when each turn's two
\* messages are adjacent and the turns are in the order of their calls.
RECURSIVE TurnsInOrder(_, _)
TurnsInOrder(r, n) ==
    IF n = 0 THEN << >>
    ELSE TurnsInOrder(r, n - 1) \o
         (IF n \in RelaysOf(r)
          THEN << [role |-> "user", content |-> user_text[n]],
                  [role |-> "assistant", content |-> <<"re:">> \o user_text[n]] >>
          ELSE << >>)

\* ------------------------------------------------------------- C1
\* C1 (as claimed): when the N relays made for a room have all completed,
\* each with a successful inference call, and the room saw no /reset, the
\* room's history is the 2N messages user, assistant, user, assistant, ...
\* of the turns in the order of their calls.
C1_AlternatingInCallOrder ==
    \A r \in Rooms :
        ( /\ RelaysOf(r) # {}
          /\ \A t \in RelaysOf(r) : pc[t] = "done" /\ infer[t] = "ok"
          /\ NoReset(r) )
        => Hist(r) = TurnsInOrder(r, Len(calls))

\* ------------------------------------------------------------- C2
\* What the step that handles a /reset in room r does to the map.
C2_ResetStep ==
    (Len(calls') = Len(calls) + 1 /\ Last(calls').handler = "reset")
    => LET r == Last(calls').room
       IN  /\ DOMAIN CHAT_HISTORY' = DOMAIN CHAT_HISTORY
           /\ r \in DOMAIN CHAT_HISTORY => CHAT_HISTORY'[r] = << >>
           /\ \A x \in DOMAIN CHAT_HISTORY \ {r} : CHAT_HISTORY'[x] = CHAT_HISTORY[x]

\* C2: the step that handles a /reset in room r leaves the set of rooms with
\* an entry as it was, makes r's history empty when r has an entry, and
\* leaves the history of every other room as it was.
C2_ResetClearsOnlyItsRoom == [][C2_ResetStep]_vars

\* A /reset has just emptied r1, whose relay had appended, and r2 keeps its
\* messages.
C2_Witness ==
    /\ Len(calls) = 3
    /\ calls[1] = [room |-> "r1", handler |-> "relay"]
    /\ calls[2] = [room |-> "r2", handler |-> "relay"]
    /\ calls[3] = [room |-> "r1", handler |-> "reset"]
    /\ prompt[1] # << >>
    /\ Len(Hist("r2")) = 2
    /\ "r1" \in DOMAIN CHAT_HISTORY
    /\ CHAT_HISTORY["r1"] = << >>


\* ------------------------------------------------------------- C3
\* A step of relay t on its failure path: the step in which client.chat
\* raises, or a later step of the same handler (the process running on).
FailurePathStep(t) ==
    /\ main_pc' = "sync"
    /\ \/ infer[t] = "none" /\ infer'[t] = "failed"
       \/ infer[t] = "failed" /\ pc'[t] # pc[t]

\* C3, state part: for a relay whose inference call failed, the exception
\* that leaves the handler, if any, is not the inference error; with no
\* Matrix call failing the handler ends normally; and as long as no other
\* handler has touched the room's history since the call, its last element
\* is the turn's user message.
C3_State ==
    \A t \in Events :
        infer[t] = "failed" =>
            /\ exc[t] # "inference"
            /\ (pc[t] = "done" /\ faults = 0) => exc[t] = "none"
            /\ Hist(Room(t)) = prompt[t] =>
                   Last(Hist(Room(t))) = [role |-> "user", content |-> user_text[t]]

\* C3, step part: the step in which the inference call fails enters the
\* except block, and neither it nor any later step of that relay changes any
\* history: no assistant message is appended, the user message stays.
C3_Step ==
    \A t \in Events :
        FailurePathStep(t) =>
            /\ CHAT_HISTORY' = CHAT_HISTORY
            /\ infer[t] = "none" => pc'[t] \in {"redact_exc", "done"}

Appended(r) == {t \in RelaysOf(r) : prompt[t] # << >>}

\* The relays of room r whose inference call succeeded.
Succeeded(r) == {t \in RelaysOf(r) : infer[t] = "ok"}

\* C4 (as claimed): after a relay whose inference call failed, the history
\* is no longer than before the turn.  prompt[t] is the history with the
\* turn's user message just appended, one message more than before.
C4_LengthNotIncreased ==
    \A t \in Events :
        (infer[t] = "failed" /\ pc[t] = "done")
        => Len(Hist(Room(t))) + 1 <= Len(prompt[t])

\* C4 (amended): a failed turn leaves exactly its user message behind.  In a
\* room that saw no /reset the history length is the number of turns that
\* appended their user message plus the number of turns whose inference
\* call succeeded; a failed turn counts once.
C4_FailedTurnAddsOnlyUser ==
    \A r \in Rooms :
        NoReset(r) => Len(Hist(r)) = Cardinality(Appended(r)) + Cardinality(Succeeded(r))

\* A room with a finished failed turn and a finished successful one holds
\* three messages.
C4_Witness ==
    \E r \in Rooms : \E t1, t2 \in RelaysOf(r) :
        /\ NoReset(r)
        /\ infer[t1] = "failed" /\ pc[t1] = "done"
        /\ infer[t2] = "ok" /\ pc[t2] = "done"
        /\ Len(Hist(r)) = 3

\* ------------------------------------------------------------- C5
\* The step in which message_callback receives an event.
DispatchStep == Len(calls') = Len(calls) + 1

\* The handler the claim names for each text of the model.
C5_Handler(text) ==
    CASE text = <<"/", "s", "t", "a", "r", "t">> -> "start"
      [] text = <<"/", "s", "t", "a", "r", "t", "x">> -> "start"
      [] text = <<"/", "S", "T", "A", "R", "T">> -> "relay"
      [] text = <<"/", "h", "e", "l", "p">> -> "help"
      [] text = <<"/", "r", "e", "s", "e", "t">> -> "reset"
      [] text = <<"h", "i">> -> "relay"

\* What room r's outbox may be after a handler's single room_send of `m`:
\* with the message, or as before when the send failed.
AfterSend(r, m) == {outbox, [outbox EXCEPT ![r] = Append(@, m)]}

C5_Step ==
    (DispatchStep /\ event'.sender # user_id) =>
        LET n == Len(calls')
            r == event'.room
            h == calls'[n].handler
            sends(kind) == [op |-> "send", by |-> n,
                            body |-> [kind |-> kind, text |-> << >>]]
        IN  /\ calls'[n].room = r
            /\ h = C5_Handler(event'.text)
            /\ h = "start" =>
                   /\ outbox' \in AfterSend(r, sends("greeting"))
                   /\ CHAT_HISTORY' = CHAT_HISTORY /\ pc' = pc
            /\ h = "help" =>
                   /\ outbox' \in AfterSend(r, sends("usage"))
                   /\ CHAT_HISTORY' = CHAT_HISTORY /\ pc' = pc
            /\ h = "reset" =>
                   /\ outbox' \in AfterSend(r, sends("reset_ack"))
                   /\ pc' = pc
            /\ h = "relay" =>
                   /\ pc' = [pc EXCEPT ![n] = "thinking"]
                   /\ user_text'[n] = event'.text
                   /\ outbox' = outbox /\ CHAT_HISTORY' = CHAT_HISTORY

\* C5: for every text from a sender other than the bot, message_callback
\* runs the one handler the case-sensitive prefix match selects (/start,
\* then /help, then /reset, else the relay), whatever follows the command
\* word, and the step has that handler's effect and no other's.
C5_PrefixDispatch == [][C5_Step]_vars

\* "/startx" has just been answered with the greeting.
C5_Witness ==
    /\ Len(calls) >= 1
    /\ event.sender = "@alice"
    /\ event.text = <<"/", "s", "t", "a", "r", "t", "x">>
    /\ Last(calls).handler = "start"
    /\ outbox[event.room] # << >>
    /\ Last(outbox[event.room]).by = Len(calls)
    /\ Last(outbox[event.room]).body.kind = "greeting"

\* ------------------------------------------------------------- C6
\* p is a prefix of text, letter by letter.
C6_Prefix(p, text) == Len(p) <= Len(text) /\ \A i \in 1..Len(p) : text[i] = p[i]

\* text starts with a slash and with none of the three command words.
C6_UnknownSlash(text) ==
    /\ text # << >>
    /\ text[1] = "/"
    /\ \A p \in { <<"/", "s", "t", "a", "r", "t">>, <<"/", "h", "e", "l", "p">>,
                   <<"/", "r", "e", "s", "e", "t">> } : ~C6_Prefix(p, text)

\* The room's history after the step, empty when there is no entry.
HistAfter(r) == IF r \in DOMAIN CHAT_HISTORY' THEN CHAT_HISTORY'[r] ELSE << >>

C6_Step ==
    /\ (DispatchStep /\ event'.sender # user_id /\ C6_UnknownSlash(event'.text)) =>
           /\ Last(calls').handler = "relay"
           /\ user_text'[Len(calls')] = event'.text
    /\ \A t \in Events :
           (pc[t] = "thinking" /\ pc'[t] = "chat") =>
               HistAfter(Room(t)) =
                   Append(Hist(Room(t)), [role |-> "user", content |-> user_text[t]])

\* C6: a slash-prefixed text that starts with none of /start, /help, /reset
\* goes to the relay, and the user message the relay appends has the text,
\* leading slash included, as its content.
C6_UnknownSlashRelayed == [][C6_Step]_vars

\* The relay of "/START" has appended it, slash and all.
C6_Witness ==
    \E t \in Events :
        /\ pc[t] = "chat"
        /\ user_text[t] = <<"/", "S", "T", "A", "R", "T">>
        /\ Hist(Room(t)) = << [role |-> "user", content |-> <<"/", "S", "T", "A", "R", "T">>] >>

\* ------------------------------------------------------------- C7
\* What relay t has had delivered to its room, in order.
SentBy(t) == SelectSeq(outbox[Room(t)], LAMBDA m : m.by = t)

\* C7, state part: while the placeholder send is pending the relay has
\* appended and sent nothing; while the inference call is pending the
\* placeholder is the only thing the relay has sent, the call was given a
\* list ending with the turn's user message, and it has no result yet.
C7_State ==
    \A t \in Events :
        /\ pc[t] = "thinking" =>
               prompt[t] = << >> /\ infer[t] = "none" /\ SentBy(t) = << >>
        /\ pc[t] = "chat" =>
               /\ infer[t] = "none"
               /\ thinking[t] \in {"ok", "err"}
               /\ SentBy(t) = IF thinking[t] = "ok"
                               THEN << [op |-> "send", by |-> t,
                                        body |-> [kind |-> "thinking", text |-> << >>]] >>
                               ELSE << >>
               /\ prompt[t] # << >>
               /\ Last(prompt[t]) = [role |-> "user", content |-> user_text[t]]

\* C7, step part: starting a relay changes no history; the step that ends
\* the placeholder send appends the user message to the room's list and
\* gives client.chat that whole list; the assistant message is appended in
\* the step in which the pending call returns, not before.
C7_Step ==
    /\ (DispatchStep /\ Last(calls').handler = "relay") => CHAT_HISTORY' = CHAT_HISTORY
    /\ \A t \in Events :
           /\ (pc[t] = "thinking" /\ pc'[t] = "chat") =>
                  /\ HistAfter(Room(t)) =
                         Append(Hist(Room(t)), [role |-> "user", content |-> user_text[t]])
                  /\ prompt'[t] = HistAfter(Room(t))
           /\ (infer[t] = "none" /\ infer'[t] = "ok") =>
                  /\ pc[t] = "chat"
                  /\ HistAfter(Room(t)) =
                         Append(Hist(Room(t)),
                                [role |-> "assistant", content |-> <<"re:">> \o user_text[t]])

\* C7: in every relay the placeholder is sent, then the user message is
\* appended (the entry created if absent), then client.chat is called with
\* the room's whole list, which ends with that user message; nothing is
\* appended or sent as a reply before the call returns.
C7_RelayOrder == []C7_State /\ [][C7_Step]_vars

\* A relay awaits its inference call, which was given a list of three
\* messages: an earlier exchange and the turn's user message.
C7_Witness ==
    \E t \in Events :
        /\ pc[t] = "chat"
        /\ Len(prompt[t]) = 3
        /\ prompt[t] = Hist(Room(t))
        /\ prompt[t][1].role = "user" /\ prompt[t][2].role = "assistant"
        /\ Len(SentBy(t)) = 1

\* ------------------------------------------------------------- C8
\* The kinds of the messages relay t has had delivered after its placeholder.
Redactions(t) == SelectSeq(SentBy(t), LAMBDA m : m.op = "redact")
Replacements(t) ==
    SelectSeq(SentBy(t), LAMBDA m : m.op = "send" /\ m.body.kind # "thinking")

\* C8 (as claimed, its safety half): a relay that sent its placeholder and
\* has ended redacted it at most once and sent at most one further message,
\* the model's reply when the inference call succeeded and the apology when
\* it failed.
C8_ReplacedOnceByOutcome ==
    \A t \in Events :
        (pc[t] = "done" /\ thinking[t] = "ok") =>
            /\ Len(Redactions(t)) <= 1
            /\ Len(Replacements(t)) <= 1
            /\ \A i \in 1..Len(Replacements(t)) :
                   Replacements(t)[i].body.kind =
                       (IF infer[t] = "ok" THEN "reply" ELSE "apology")

\* ------------------------------------------------------------- C9
\* C9: nothing excludes a second relay of a room while a first one is
\* suspended: as long as the sync loop runs (and the run's bounds allow
\* another event and another relay), a text for any room can be dispatched
\* to the relay, whatever the room's relays are waiting for, and a relay
\* whose placeholder send returns can append its user message.
C9_NoMutualExclusion ==
    /\ \A r \in Rooms :
           (Syncing /\ Len(calls) < MaxEvents /\ Relays < MaxRelays)
           => ENABLED message_callback(r, "@alice", T_hi, "ok")
    /\ \A t \in Events :
           (Syncing /\ pc[t] = "thinking") => ENABLED relay_append(t, "ok")

\* The appends of two turns of one room have interleaved: two user messages
\* in a row, then two assistant messages in a row.
C9_Witness ==
    \E r \in Rooms :
        /\ Len(Hist(r)) = 4
        /\ Hist(r)[1].role = "user" /\ Hist(r)[2].role = "user"
        /\ Hist(r)[3].role = "assistant" /\ Hist(r)[4].role = "assistant"

\* ------------------------------------------------------------- C10
\* C10 (as claimed): a program started with the password absent, empty or
\* the template value ends with a diagnostic and a non-zero status, having
\* constructed no client and attempted no login.
C10_MissingPasswordExitsNonzero ==
    (main_pc = "exited" /\ password \in {"absent", "empty", "template"}) =>
        /\ exit_status = "nonzero"
        /\ diag
        /\ client = "none"
        /\ logins = 0

\* ------------------------------------------------------------- C11
\* C11 (as claimed): once load_config has run, the configuration it returned
\* has every recognised key; a key the file gives has the file's value, every
\* other recognised key its default (all of them when the file is missing),
\* and a key that is not recognised is not in it.
C11_EveryKeyPopulated ==
    main_pc # "load" =>
        /\ DefaultKeys \subseteq DOMAIN CONFIG
        /\ "colour" \notin DOMAIN CONFIG
        /\ \A k \in DefaultKeys :
               CONFIG[k] = IF conf_file = "present" /\ k \in conf_keys
                           THEN "file" ELSE "default"

\* ------------------------------------------------------------- C12
\* The positions in dm_log of the calls named c.
DmCalls(c) == {i \in 1..Len(dm_log) : dm_log[i].call = c}

\* The DM flow has read the persisted state.
DmRunning == saved_room # "unset"

\* The first call was the send to the saved room.
SavedSendFirst ==
    /\ dm_log # << >>
    /\ dm_log[1].call = "send"
    /\ dm_log[1].room = saved_room

\* With a saved room id, the greeting goes to that room before anything else.
C12_SavedRoomFirst ==
    (DmRunning /\ saved_room # "none") =>
        \/ main_pc = "send_saved" /\ dm_log = << >>
        \/ SavedSendFirst

\* room_create is called (or awaited) exactly when there was no saved room id
\* or the send to the saved room failed, and at most once.
C12_CreateIff ==
    DmRunning =>
        /\ (DmCalls("create") # {} \/ main_pc = "create")
             <=> (saved_room = "none" \/ (SavedSendFirst /\ dm_log[1].o # "ok"))
        /\ Cardinality(DmCalls("create")) <= 1

\* A successful send to the saved room is the only call, and the persisted
\* state is what it was.
C12_SavedOkOnly ==
    (DmRunning /\ SavedSendFirst /\ dm_log[1].o = "ok") =>
        /\ Len(dm_log) = 1
        /\ dm_state = saved_room

\* The greeting is on its way to the new room, or has been sent to it.
GreetingToNew ==
    \/ main_pc = "send_new"
    \/ \E i \in DmCalls("send") : dm_log[i].room = "new"

\* The write of the new room's id came after room_create returned it and
\* before the greeting to the new room.
SaveBeforeGreeting(j) ==
    /\ j \in DmCalls("save")
    /\ j - 1 \in DmCalls("create") /\ dm_log[j - 1].o = "ok"
    /\ \A i \in DmCalls("send") : dm_log[i].room = "new" => j < i

C13_State ==
    DOMAIN CHAT_HISTORY = {Room(t) : t \in {i \in 1..Len(calls) : prompt[i] # << >>}}

\* C13, step part: while the bot runs no entry is removed; an entry appears
\* only in the append step of a relay, for the relay's room; the step that
\* handles /start or /help leaves the whole map as it was, and so does the
\* step that handles /reset in a room without an entry.
C13_Step ==
    main_pc' = "sync" =>
        /\ DOMAIN CHAT_HISTORY \subseteq DOMAIN CHAT_HISTORY'
        /\ \A r \in DOMAIN CHAT_HISTORY' \ DOMAIN CHAT_HISTORY :
               \E t \in 1..Len(calls) :
                   /\ calls[t] = [room |-> r, handler |-> "relay"]
                   /\ pc[t] = "thinking" /\ pc'[t] = "chat"
        /\ (DispatchStep /\ Last(calls').handler \in {"start", "help"})
               => CHAT_HISTORY' = CHAT_HISTORY
        /\ (DispatchStep /\ Last(calls').handler = "reset"
                /\ Last(calls').room \notin DOMAIN CHAT_HISTORY)
               => CHAT_HISTORY' = CHAT_HISTORY

\* C13: a conversation has an entry in the history map iff a relay has
\* reached its append step for it: only the relay creates an entry, entries
\* are never removed, /reset, /start and /help create none, and /start and
\* /help change no history.
C13_EntriesOnlyByRelay == []C13_State /\ [][C13_Step]_vars

\* r1 has an entry from its relay; r2, where a /reset and then a /start were
\* handled, has none.
C13_Witness ==
    /\ Len(calls) = 3
    /\ calls[1] = [room |-> "r1", handler |-> "relay"]
    /\ calls[2] = [room |-> "r2", handler |-> "reset"]
    /\ calls[3] = [room |-> "r2", handler |-> "start"]
    /\ DOMAIN CHAT_HISTORY = {"r1"}
    /\ Len(CHAT_HISTORY["r1"]) = 2

\* ------------------------------------------------------------- C14
\* C14 (as claimed): the first thing the homeserver receives from a relay is
\* a typing indicator, before the placeholder.  Stated for runs in which no
\* Matrix call has failed, so that a lost indicator is not what is missing.
C14_TypingBeforePlaceholder ==
    \A t \in 1..Len(calls) :
        (calls[t].handler = "relay" /\ faults = 0 /\ SentBy(t) # << >>)
        => SentBy(t)[1].op = "typing"

\* ------------------------------------------------------------- C15
\* C15, state part: after a login that did not succeed the process has
\* ended, with the error reported, the client closed and no callback
\* registered; the sync loop runs only after a successful login; and a
\* process that has ended has no open client.
C15_State ==
    /\ login_response \notin {"none", "ok"} =>
           /\ main_pc = "exited"
           /\ diag
           /\ client = "closed"
           /\ ~ registered
    /\ (registered \/ main_pc \in {"sync", "dm"}) => login_response = "ok"
    /\ main_pc = "exited" => client \in {"none", "closed"}

\* C15, step part: the step in which the sync loop ends (the transport has
\* raised) reports the error, closes the client and ends the process.
C15_Step ==
    (main_pc = "sync" /\ main_pc' # "sync") =>
        /\ main_pc' = "exited"
        /\ diag'
        /\ client' = "closed"

\* C15: when login fails or the transport raises while the bot runs, the
\* error is reported, the client is closed and the process ends; after a
\* failed login no callback is registered and no sync loop starts; and the
\* client is closed on every path out of main after it was constructed.
C15_FailureClosesClient == []C15_State /\ [][C15_Step]_vars

\* main.py has ended after a login that returned an error response.
C15_Witness ==
    /\ program = "main"
    /\ login_response = "err"
    /\ main_pc = "exited"
    /\ client = "closed"
    /\ diag
    /\ ~ registered

\* ------------------------------------------------------------- C16
\* C16 (as claimed): in every reachable state every assistant message of a
\* history has a user message right before it; in particular no history
\* starts with an assistant message.
C16_AssistantFollowsUser ==
    \A r \in DOMAIN CHAT_HISTORY :
        \A i \in 1..Len(CHAT_HISTORY[r]) :
            CHAT_HISTORY[r][i].role = "assistant" =>
                /\ i > 1
                /\ CHAT_HISTORY[r][i - 1].role = "user"

\* ------------------------------------------------------------- C17
C17_Step ==
    (DispatchStep /\ event'.sender = user_id) =>
        /\ Last(calls').handler = "none"
        /\ UNCHANGED <<CHAT_HISTORY, pc, user_text, thinking, prompt, infer, exc,
                       faults, outbox>>

\* C17: the step that delivers an event sent by the bot's own user id calls
\* no handler: nothing is sent, no relay starts (so the inference client is
\* not called), and no history changes.
C17_OwnEventsIgnored == [][C17_Step]_vars

\* The bot's own "hi", a text the relay would take from anybody else, was
\* delivered in a room that has a history, and no handler was called.
C17_Witness ==
    /\ Syncing
    /\ Len(calls) >= 2
    /\ event.sender = user_id
    /\ event.text = T_hi
    /\ Last(calls) = [room |-> event.room, handler |-> "none"]
    /\ Len(Hist(event.room)) = 2

\* ------------------------------------------------------------- C18
\* C18 (as claimed): a relay whose apology was sent has not appended an
\* assistant message: its inference call did not succeed.
C18_ApologyOnlyWithoutReply ==
    \A t \in 1..Len(calls) :
        (\E i \in 1..Len(SentBy(t)) : SentBy(t)[i].body.kind = "apology")
        => infer[t] # "ok"

=============================================================================
